---------------------------- MODULE Spec2Model ----------------------------
(***************************************************************************)
(* CSV import of geolocation records (package geoolocation).               *)
(*                                                                         *)
(* Two revisions of the import live side by side in the sources:           *)
(*   impl = "geo" : Geo.ImportCSV of geo.go, which runs sanitizeCSV,       *)
(*                  loadData and os.Remove in one thread of control plus   *)
(*                  the worker goroutines sanitizeCSV starts;              *)
(*   impl = "csv" : the csvImporter of csv.go (setUpSanitizer, read, load, *)
(*                  clean), constructed as newImporter constructs it and   *)
(*                  driven in the order setUpSanitizer, read, load, clean. *)
(* A behaviour is one import: the inputs are fixed by Init, the main       *)
(* thread, the sanitizer goroutine and the workers interleave step by      *)
(* step.  A data row is known by its index in the input.                   *)
(*                                                                         *)
(* Two smaller parts stand beside the import, each with its own            *)
(* specification: SpecSessions, two sessions that compute their staging    *)
(* paths and work in one directory, and SpecSanitize, csvData.sanitize on  *)
(* the fields of one record.  FairSpec is Spec under the Go scheduler.     *)
(***************************************************************************)
EXTENDS Integers, Sequences, FiniteSets, TLC

\* Bounds of the model.
MaxRows == 2
MaxConcurrency == 2
\* Lines the staging writer's bufio buffer holds before it writes through.
BufLines == 1

\* csv.go:37, geo.go:113
csvHeader == <<"ip_address", "country_code", "country", "city", "latitude", "longitude", "mystery_value">>

\* The first record of the source file, as encoding/csv returns it; <<>> is
\* an empty file (reader.Read returns io.EOF).
Headers ==
    { csvHeader,
      <<>>,
      <<"ip_address", "city">>,
      <<"col1", "col2", "col3", "col4", "col5", "col6", "col7">>,
      <<"ip_address", "country_code", "country", "city", "latitude", "longitude", "mystery">>,
      <<"ip_address", "country_code", "country", "city", "latitude", "longitude", "mystery_value", "extra">> }

\* Kinds of data row: seven fields that pass sanitize, seven fields that
\* fail it, and a line with six fields.
RowKinds == {"valid", "invalid", "malformed"}

FieldCount(kind) == IF kind = "malformed" THEN 6 ELSE 7

Exts == {".csv", ".txt"}

Drivers == {"mysql", "postgres", "sqlite"}

Impls == {"geo", "csv"}

Workers == 1..MaxConcurrency

SeqsUpTo(S, n) == UNION { [1..k -> S] : k \in 0..n }

\* Import sessions that run side by side, and the lines each one stages.
Sessions == {1, 2}
MaxLines == 1

\* A source path is the sequence of its directories followed by the stem
\* and the extension of the file name: << "a", "data", ".csv" >> is
\* a/data.csv.
Dirs == {"a", "b"}
Stems == {"data", "geo"}

Paths ==
    { << st, e >> : st \in Stems, e \in Exts }
        \cup { << dir, st, e >> : dir \in Dirs, st \in Stems, e \in Exts }

\* Field values of one csvData record.  Calls of sanitize on one record, and
\* the tokens of a country or city text.
MaxCalls == 2
MaxTokens == 2

\* A country or city text is a sequence of tokens: words, and the single
\* quote.  Adjacent words read as one word ("test" "Or" is testOr).
Tokens == {"test", "Or", "'"}

Texts == SeqsUpTo(Tokens, MaxTokens)

\* An address: its separator and the decimal value of each part.
Addresses ==
    { [sep |-> ".", parts |-> << 127, 0, 0, 1 >>],
      [sep |-> ".", parts |-> << 127, 0 >>] }

\* A country code: its characters.
Codes == { << "A", "B" >>, << "B" >> }

\* A coordinate text: a sign ("", "+" or "-"), the digits before the point
\* by their value, the seven digits after it by theirs, whether nonzero
\* digits follow that are finer than a float64 resolves, the word NaN in
\* place of digits, and what follows the number.
Coordinate(sign, whole, frac, tiny, special, junk) ==
    [sign |-> sign, whole |-> whole, frac |-> frac, tiny |-> tiny,
     special |-> special, junk |-> junk]

Latitudes ==
    { Coordinate("", 48, 0, FALSE, "", ""),
      Coordinate("", 148, 0, FALSE, "", "") }

Longitudes ==
    { Coordinate("-", 14, 0, FALSE, "", ""),
      Coordinate("", 4, 0, FALSE, "", "gh") }

\* An auxiliary value text: a sign, its decimal digits, and what follows
\* them.
MysteryValues ==
    { [sign |-> "", digits |-> << 2, 1, 4, 7, 4, 8, 3, 6, 4, 7 >>,
       junk |-> ""],
      [sign |-> "", digits |-> << 2, 1, 4, 7, 4 >>, junk |-> "ff83647"] }

Records ==
    [ipAddress : Addresses, countryCode : Codes, country : Texts,
     city : Texts, latitude : Latitudes, longitude : Longitudes,
     mysteryValue : MysteryValues]

\* Wider value sets, for records that differ from a record sanitize
\* accepts in one field.
MaxCodeLen == 3

TokensWide == Tokens \cup {"and", "Select", "exec", "Execute", " "}

TextsWide == SeqsUpTo(TokensWide, MaxTokens)

CodesWide == SeqsUpTo({"A", "B", "a", "b", "1"}, MaxCodeLen)

Signs == {"", "+", "-"}

CoordinatesWide ==
    { Coordinate(sg, w, fr, tiny, "", junk) :
        sg \in Signs, w \in {0, 89, 90, 91, 179, 180, 181}, fr \in {0, 1},
        tiny \in BOOLEAN, junk \in {"", "gh"} }
      \cup { Coordinate("", 0, 0, FALSE, "NaN", "") }

\* 2^63 - 1 and 2^63, digit by digit.
MaxInt64 == << 9, 2, 2, 3, 3, 7, 2, 0, 3, 6, 8, 5, 4, 7, 7, 5, 8, 0, 7 >>
MinInt64 == << 9, 2, 2, 3, 3, 7, 2, 0, 3, 6, 8, 5, 4, 7, 7, 5, 8, 0, 8 >>

MysteryValuesWide ==
    [sign : Signs,
     digits : { << >>, << 0 >>, << 0, 0, 7 >>,
                << 2, 1, 4, 7, 4, 8, 3, 6, 4, 7 >>, MaxInt64, MinInt64,
                << 0 >> \o MinInt64, MaxInt64 \o << 0 >> },
     junk : {"", "ff"}]

BaseRecord ==
    [ipAddress |-> [sep |-> ".", parts |-> << 127, 0, 0, 1 >>],
     countryCode |-> << "A", "B" >>,
     country |-> << "test" >>,
     city |-> << "test" >>,
     latitude |-> Coordinate("", 48, 0, FALSE, "", ""),
     longitude |-> Coordinate("-", 14, 0, FALSE, "", ""),
     mysteryValue |-> [sign |-> "", digits |-> << 7 >>, junk |-> ""]]

RecordsWide ==
    { [BaseRecord EXCEPT !.country = t] : t \in TextsWide }
      \cup { [BaseRecord EXCEPT !.city = t] : t \in TextsWide }
      \cup { [BaseRecord EXCEPT !.countryCode = c] : c \in CodesWide }
      \cup { [BaseRecord EXCEPT !.latitude = c] : c \in CoordinatesWide }
      \cup { [BaseRecord EXCEPT !.longitude = c] : c \in CoordinatesWide }
      \cup { [BaseRecord EXCEPT !.mysteryValue = v] :
                v \in MysteryValuesWide }

VARIABLES
    impl,          \* which revision runs
    ext,           \* filepath.Ext(path)
    concurrency,   \* the concurrency argument / csvImporter.concurrency
    driver,        \* Geo.driver / csvImporter.driver
    header,        \* first record of the source file
    rows,          \* the data rows of the source file
    pc,            \* position of the calling thread
    pos,           \* data rows consumed by the csv reader
    pending,       \* the record read and not yet sent on data (0: none)
    totalRows,     \* read's / sanitizeCSV's counter
    data,          \* buffered contents of the data channel
    dataClosed,    \* close(data) has run
    closes,        \* how many times close(data) has run
    published,     \* the records sent on data so far, in order
    spc,           \* position of the goroutine setUpSanitizer starts
    spawned,       \* workers started so far
    wg,            \* sync.WaitGroup counter
    wpc,           \* position of each worker
    wrec,          \* the record each worker holds (0: none)
    m,             \* holder of the sync.Mutex (0: free)
    buf,           \* lines held by the csv.Writer's buffer
    file,          \* lines in the staging file
    exists,        \* the staging path exists
    fdOpen,        \* the staging file handle is open
    flushed,       \* the deferred writer.Flush has run
    sent,          \* completed sends on signal
    received,      \* completed receives on signal
    rejected,      \* records sanitize rejected
    writeErrs,     \* records whose writer.Write returned an error
    io,            \* file and store operations performed so far
    inserted,      \* rows the store reported
    result,        \* the *Result returned (Nil: none)
    err,           \* the error returned ("": none)
    srcPath,       \* the source path of each of two sessions
    phase,         \* how far each of the two sessions has come
    disk,          \* the working directory: the lines of each staging file
    lines,         \* lines each session has written
    loaded,        \* the lines each session's bulk load read
    d0,            \* the csvData record as it was read
    before,        \* the record before the latest call of sanitize
    d,             \* the record now
    sErr,          \* the error the latest call of sanitize returned
    calls          \* calls of sanitize on the record so far

importVars == << impl, ext, concurrency, driver, header, rows, pc, pos,
                pending, totalRows, data, dataClosed, closes, published, spc,
                spawned, wg, wpc, wrec, m, buf, file, exists, fdOpen, flushed,
                sent, received, rejected, writeErrs, io, inserted,
                result, err >>

Nil == [nil |-> TRUE]

\* The two-session part of the model.
sessionVars == << srcPath, phase, disk, lines, loaded >>

\* The single-record part of the model.
recordVars == << d0, before, d, sErr, calls >>

\* What a single import leaves alone: its inputs, and the other parts.
inputs == << impl, ext, concurrency, driver, header, rows, sessionVars,
            recordVars >>

vars == << importVars, sessionVars, recordVars >>
readerVars == << pos, pending, totalRows, data, dataClosed, closes,
                published >>
poolVars == << spawned, wg, wpc, wrec, m, rejected, writeErrs >>
fileVars == << buf, file, exists, fdOpen, flushed >>
signalVars == << sent, received >>

\* newImporter (the constructor the sources hold) leaves the extension
\* unchecked: only Geo.ImportCSV looks at it.
ImportInit ==
    /\ impl \in Impls
    /\ ext \in (IF impl = "geo" THEN Exts ELSE {".csv"})
    /\ concurrency \in 0..MaxConcurrency
    /\ driver \in Drivers
    /\ header \in Headers
    /\ rows \in SeqsUpTo(RowKinds, MaxRows)
    /\ pc = (IF impl = "geo" THEN "ext" ELSE "setUp")
    /\ pos = 0
    /\ pending = 0
    /\ totalRows = 0
    /\ data = << >>
    /\ dataClosed = FALSE
    /\ closes = 0
    /\ published = << >>
    /\ spc = "none"
    /\ spawned = 0
    /\ wg = 0
    /\ wpc = [w \in Workers |-> "none"]
    /\ wrec = [w \in Workers |-> 0]
    /\ m = 0
    /\ buf = << >>
    /\ file = << >>
    /\ exists = FALSE
    /\ fdOpen = FALSE
    /\ flushed = FALSE
    /\ sent = 0
    /\ received = 0
    /\ rejected = {}
    /\ writeErrs = {}
    /\ io = {}
    /\ inserted = 0
    /\ result = Nil
    /\ err = ""

\* No session of the two-session part has been started.
SessionsIdle ==
    /\ srcPath = [s \in Sessions |-> << >>]
    /\ phase = [s \in Sessions |-> "idle"]
    /\ disk = [sp \in {} |-> << >>]
    /\ lines = [s \in Sessions |-> 0]
    /\ loaded = [s \in Sessions |-> << >>]

\* No record of the single-record part is under sanitize.
RecordIdle ==
    /\ d0 = Nil
    /\ before = Nil
    /\ d = Nil
    /\ sErr = ""
    /\ calls = 0

Init ==
    /\ ImportInit
    /\ SessionsIdle
    /\ RecordIdle


-----------------------------------------------------------------------------
\* Pure helpers.

\* csv.go:100-108, geo.go:120-128: the header has the expected length and
\* every field equals the expected one.
HeaderValid(h) ==
    /\ Len(h) = Len(csvHeader)
    /\ \A j \in 1..Len(csvHeader) : h[j] = csvHeader[j]

\* encoding/csv with FieldsPerRecord = 0: every record must have as many
\* fields as the first one, else Read returns ErrFieldCount.
FieldCountError(kind) == FieldCount(kind) # Len(header)

\* csvData.sanitize / the validate* chain of sanitizeCSV: nil or an error.
sanitize(kind) == kind = "valid"

\* make(chan []string, concurrency) of sanitizeCSV.
sanitizeCSV_cap == concurrency

\* make(chan csvData, 1) of newImporter.
newImporter_cap == 1

DataCap == IF impl = "geo" THEN sanitizeCSV_cap ELSE newImporter_cap

\* Variant of NewResult that leaves the subtraction out.
NewResult_NoSubtract(total, ins) ==
    [acceptedRows |-> ins, discardedRows |-> total]

\* &Result{acceptedRows: insertedRows, discardedRows: totalRows - insertedRows}
NewResult(total, ins) ==
    [acceptedRows |-> ins, discardedRows |-> total - ins]

\* Variant of WriterWrite that puts the line in front of the buffered ones.
WriterWrite_Front(line) ==
    /\ buf' = << line >> \o buf
    /\ file' = file

\* csv.Writer.Write on a bufio.Writer: a line that no longer fits writes the
\* buffered lines through to the file first.
WriterWrite(line) ==
    IF Len(buf) >= BufLines
    THEN /\ file' = file \o buf
         /\ buf' = << line >>
    ELSE /\ buf' = Append(buf, line)
         /\ file' = file

\* csv.Writer.Flush.
WriterFlush ==
    /\ file' = file \o buf
    /\ buf' = << >>
    /\ flushed' = TRUE

\* What RowsAffected can report for LOAD DATA on the staging file as it is
\* when the statement runs: the number of lines the store inserted.
RowsAffected == 0..Len(file)

\* The process is alive: log.Fatal has not ended it.
Alive == pc # "exited"

\* Variant of ImportCSVAfter that goes on to the removal after a failed load.
ImportCSVAfter_CleanOnError(call, failed) ==
    CASE call = "ext" -> IF failed THEN "failed" ELSE "open"
      [] call = "sanitizeCSV" -> IF failed THEN "failed" ELSE "load"
      [] call = "loadData" -> "remove"
      [] call = "remove" -> IF failed THEN "failed" ELSE "done"

\* Where Geo.ImportCSV goes after each call it makes.
ImportCSVAfter(call, failed) ==
    CASE call = "ext" -> IF failed THEN "failed" ELSE "open"
      [] call = "sanitizeCSV" -> IF failed THEN "failed" ELSE "load"
      [] call = "loadData" -> IF failed THEN "failed" ELSE "remove"
      [] call = "remove" -> IF failed THEN "failed" ELSE "done"

\* The order in which one import session drives the csvImporter.
SessionAfter(call, failed) ==
    CASE call = "setUpSanitizer" -> IF failed THEN "failed" ELSE "open"
      [] call = "read" -> IF failed THEN "failed" ELSE "recv"
      [] call = "load" -> "clean"
      [] call = "clean" -> "result"
      [] call = "result" -> IF failed THEN "failed" ELSE "done"

-----------------------------------------------------------------------------
\* Geo.ImportCSV (geo.go), the calling thread.

\* Variant of ImportCSV_Ext without the extension check.
ImportCSV_Ext_Missing ==
    /\ pc = "ext"
    /\ pc' = ImportCSVAfter("ext", FALSE)
    /\ UNCHANGED << inputs, readerVars, spc, poolVars, fileVars, signalVars,
                    io, inserted, result, err >>

\* geo.go:72-74: the extension check, before anything else.
ImportCSV_Ext ==
    /\ pc = "ext"
    /\ IF ext # ".csv"
       THEN /\ pc' = ImportCSVAfter("ext", TRUE)
            /\ err' = "invalid file extension"
       ELSE /\ pc' = ImportCSVAfter("ext", FALSE)
            /\ err' = err
    /\ UNCHANGED << inputs, readerVars, spc, poolVars, fileVars, signalVars,
                    io, inserted, result >>

\* Variant of sanitizeCSV_Open that creates the staging file before the
\* header is looked at.
sanitizeCSV_Open_Create ==
    /\ impl = "geo"
    /\ pc = "open"
    /\ wg' = concurrency
    /\ io' = io \cup {"open", "create"}
    /\ exists' = TRUE
    /\ fdOpen' = TRUE
    /\ \E ok \in BOOLEAN :
         IF ok
         THEN /\ pc' = "header"
              /\ err' = err
         ELSE /\ pc' = ImportCSVAfter("sanitizeCSV", TRUE)
              /\ err' = "open error"
    /\ UNCHANGED << inputs, readerVars, spc, spawned, wpc, wrec, m, rejected,
                    writeErrs, buf, file, flushed, signalVars, inserted,
                    result >>

\* geo.go:103-111: wg.Add(concurrency), make(chan), os.Open(currentPath).
sanitizeCSV_Open ==
    /\ impl = "geo"
    /\ pc = "open"
    /\ wg' = concurrency
    /\ io' = io \cup {"open"}
    /\ \E ok \in BOOLEAN :
         IF ok
         THEN /\ pc' = "header"
              /\ err' = err
         ELSE /\ pc' = ImportCSVAfter("sanitizeCSV", TRUE)
              /\ err' = "open error"
    /\ UNCHANGED << inputs, readerVars, spc, spawned, wpc, wrec, m, rejected,
                    writeErrs, fileVars, signalVars, inserted, result >>

\* geo.go:113-128: read the header and compare it with validHeader.
sanitizeCSV_Header ==
    /\ impl = "geo"
    /\ pc = "header"
    /\ IF header = << >>
       THEN /\ pc' = ImportCSVAfter("sanitizeCSV", TRUE)
            /\ err' = "EOF"
       ELSE IF ~HeaderValid(header)
       THEN /\ pc' = ImportCSVAfter("sanitizeCSV", TRUE)
            /\ err' = "invalid headers in csv file"
       ELSE /\ pc' = "create"
            /\ err' = err
    /\ UNCHANGED << inputs, readerVars, spc, poolVars, fileVars, signalVars,
                    io, inserted, result >>

\* geo.go:130-137: os.Create(sanitizedPath), csv.NewWriter.
sanitizeCSV_Create ==
    /\ impl = "geo"
    /\ pc = "create"
    /\ io' = io \cup {"create"}
    /\ \E ok \in BOOLEAN :
         IF ok
         THEN /\ exists' = TRUE
              /\ fdOpen' = TRUE
              /\ pc' = IF concurrency = 0 THEN "read" ELSE "spawn"
              /\ err' = err
         ELSE /\ UNCHANGED << exists, fdOpen >>
              /\ pc' = ImportCSVAfter("sanitizeCSV", TRUE)
              /\ err' = "create error"
    /\ UNCHANGED << inputs, readerVars, spc, poolVars, buf, file, flushed,
                    signalVars, inserted, result >>

\* geo.go:140-195: one turn of the loop that starts the workers.
sanitizeCSV_Spawn ==
    /\ impl = "geo"
    /\ pc = "spawn"
    /\ spawned < concurrency
    /\ spawned' = spawned + 1
    /\ wpc' = [wpc EXCEPT ![spawned + 1] = "recv"]
    /\ pc' = IF spawned + 1 = concurrency THEN "read" ELSE "spawn"
    /\ UNCHANGED << inputs, readerVars, spc, wg, wrec, m, rejected,
                    writeErrs, fileVars, signalVars, io, inserted, result,
                    err >>

\* geo.go:199-208: read one record and count it; a record encoding/csv
\* refuses ends the process (log.Fatal).
sanitizeCSV_Read ==
    /\ impl = "geo"
    /\ pc = "read"
    /\ pending = 0
    /\ pos < Len(rows)
    /\ pos' = pos + 1
    /\ totalRows' = totalRows + 1
    /\ IF FieldCountError(rows[pos + 1])
       THEN /\ pc' = "exited"
            /\ pending' = pending
       ELSE /\ pc' = pc
            /\ pending' = pos + 1
    /\ UNCHANGED << inputs, published, data, dataClosed, closes, spc,
                    poolVars, fileVars,
                    signalVars, io, inserted, result, err >>

\* geo.go:210: ch <- record, blocking while the channel is full.
sanitizeCSV_Send ==
    /\ impl = "geo"
    /\ pc = "read"
    /\ pending # 0
    /\ Len(data) < DataCap
    /\ data' = Append(data, pending)
    /\ published' = Append(published, pending)
    /\ pending' = 0
    /\ UNCHANGED << inputs, pc, pos, totalRows, dataClosed, closes, spc,
                    poolVars, fileVars, signalVars, io, inserted, result,
                    err >>

\* geo.go:200-202, 213: io.EOF ends the loop; close(ch).
sanitizeCSV_Close ==
    /\ impl = "geo"
    /\ pc = "read"
    /\ pending = 0
    /\ pos = Len(rows)
    /\ dataClosed' = TRUE
    /\ closes' = closes + 1
    /\ pc' = "wait"
    /\ UNCHANGED << inputs, published, pos, pending, totalRows, data, spc,
                    poolVars,
                    fileVars, signalVars, io, inserted, result, err >>

\* geo.go:214-215 and the deferred calls of 137, 134, 111: wg.Wait(), then
\* writer.Flush(), sanitizedFile.Close(), currentFile.Close() on return.
sanitizeCSV_Return ==
    /\ impl = "geo"
    /\ pc = "wait"
    /\ wg = 0
    /\ WriterFlush
    /\ fdOpen' = FALSE
    /\ pc' = ImportCSVAfter("sanitizeCSV", FALSE)
    /\ UNCHANGED << inputs, readerVars, spc, poolVars, exists, signalVars, io,
                    inserted, result, err >>

\* geo.go:218-239: the bulk load, by driver.
loadData ==
    /\ impl = "geo"
    /\ pc = "load"
    /\ CASE driver = "mysql" ->
              /\ io' = io \cup {"exec"}
              /\ \E ok \in BOOLEAN, r \in RowsAffected :
                   IF ~ok
                   THEN /\ pc' = ImportCSVAfter("loadData", TRUE)
                        /\ err' = "database error"
                        /\ inserted' = inserted
                   ELSE /\ pc' = ImportCSVAfter("loadData", FALSE)
                        /\ err' = err
                        /\ inserted' = r
         [] driver = "postgres" ->
              /\ io' = io
              /\ pc' = ImportCSVAfter("loadData", FALSE)
              /\ err' = err
              /\ inserted' = 0
         [] OTHER ->
              /\ io' = io
              /\ pc' = ImportCSVAfter("loadData", TRUE)
              /\ err' = "invalid database driver"
              /\ inserted' = inserted
    /\ UNCHANGED << inputs, readerVars, spc, poolVars, fileVars, signalVars,
                    result >>

\* Variant of ImportCSV_Remove that hands the Result back with the error.
ImportCSV_Remove_Partial ==
    /\ impl = "geo"
    /\ pc = "remove"
    /\ io' = io \cup {"remove"}
    /\ result' = NewResult(totalRows, inserted)
    /\ \E ok \in BOOLEAN :
         IF ok
         THEN /\ exists' = FALSE
              /\ pc' = ImportCSVAfter("remove", FALSE)
              /\ err' = err
         ELSE /\ exists' = exists
              /\ pc' = ImportCSVAfter("remove", TRUE)
              /\ err' = "remove error"
    /\ UNCHANGED << inputs, readerVars, spc, poolVars, buf, file, fdOpen,
                    flushed, signalVars, inserted >>

\* geo.go:87-99: os.Remove(sanitizedPath), whose error is returned, then the
\* Result.
ImportCSV_Remove ==
    /\ impl = "geo"
    /\ pc = "remove"
    /\ io' = io \cup {"remove"}
    /\ \E ok \in BOOLEAN :
         IF ok
         THEN /\ exists' = FALSE
              /\ pc' = ImportCSVAfter("remove", FALSE)
              /\ result' = NewResult(totalRows, inserted)
              /\ err' = err
         ELSE /\ exists' = exists
              /\ pc' = ImportCSVAfter("remove", TRUE)
              /\ result' = result
              /\ err' = "remove error"
    /\ UNCHANGED << inputs, readerVars, spc, poolVars, buf, file, fdOpen,
                    flushed, signalVars, inserted >>

-----------------------------------------------------------------------------
\* csvImporter (csv.go), the calling thread.

\* Variant of setUpSanitizer that starts the goroutine before it looks at
\* the error of os.Create.
setUpSanitizer_StartFirst ==
    /\ impl = "csv"
    /\ pc = "setUp"
    /\ io' = io \cup {"create"}
    /\ spc' = "start"
    /\ \E ok \in BOOLEAN :
         IF ok
         THEN /\ exists' = TRUE
              /\ fdOpen' = TRUE
              /\ pc' = SessionAfter("setUpSanitizer", FALSE)
              /\ err' = err
         ELSE /\ UNCHANGED << exists, fdOpen >>
              /\ pc' = SessionAfter("setUpSanitizer", TRUE)
              /\ err' = "create error"
    /\ UNCHANGED << inputs, readerVars, poolVars, buf, file, flushed,
                    signalVars, inserted, result >>

\* csv.go:42-83: os.Create(sanitizedPath); on success the sanitizer
\* goroutine is started and nil returned.
setUpSanitizer ==
    /\ impl = "csv"
    /\ pc = "setUp"
    /\ io' = io \cup {"create"}
    /\ \E ok \in BOOLEAN :
         IF ok
         THEN /\ exists' = TRUE
              /\ fdOpen' = TRUE
              /\ spc' = "start"
              /\ pc' = SessionAfter("setUpSanitizer", FALSE)
              /\ err' = err
         ELSE /\ UNCHANGED << exists, fdOpen, spc >>
              /\ pc' = SessionAfter("setUpSanitizer", TRUE)
              /\ err' = "create error"
    /\ UNCHANGED << inputs, readerVars, poolVars, buf, file, flushed,
                    signalVars, inserted, result >>

\* Variant of read_Open that returns the open error before the close of the
\* channel has been deferred.
read_Open_NoClose ==
    /\ impl = "csv"
    /\ pc = "open"
    /\ io' = io \cup {"open"}
    /\ \E ok \in BOOLEAN :
         IF ok
         THEN /\ pc' = "header"
              /\ err' = err
         ELSE /\ pc' = SessionAfter("read", TRUE)
              /\ err' = "open error"
    /\ UNCHANGED << inputs, readerVars, spc, poolVars, fileVars, signalVars,
                    inserted, result >>

\* csv.go:85-92: defer close(i.data); os.Open(i.path).
read_Open ==
    /\ impl = "csv"
    /\ pc = "open"
    /\ io' = io \cup {"open"}
    /\ \E ok \in BOOLEAN :
         IF ok
         THEN /\ pc' = "header"
              /\ err' = err
              /\ UNCHANGED << dataClosed, closes >>
         ELSE /\ pc' = SessionAfter("read", TRUE)
              /\ err' = "open error"
              /\ dataClosed' = TRUE
              /\ closes' = closes + 1
    /\ UNCHANGED << inputs, published, pos, pending, totalRows, data, spc,
                    poolVars,
                    fileVars, signalVars, inserted, result >>

\* Variant of read_Header that compares the length of the header only.
read_Header_LengthOnly ==
    /\ impl = "csv"
    /\ pc = "header"
    /\ IF header = << >>
       THEN /\ pc' = SessionAfter("read", TRUE)
            /\ err' = "error reading csv header"
            /\ dataClosed' = TRUE
            /\ closes' = closes + 1
       ELSE IF Len(header) # Len(csvHeader)
       THEN /\ pc' = SessionAfter("read", TRUE)
            /\ err' = "invalid csv header"
            /\ dataClosed' = TRUE
            /\ closes' = closes + 1
       ELSE /\ pc' = "read"
            /\ err' = err
            /\ UNCHANGED << dataClosed, closes >>
    /\ UNCHANGED << inputs, published, pos, pending, totalRows, data, spc,
                    poolVars,
                    fileVars, signalVars, io, inserted, result >>

\* csv.go:94-108: read the header and compare it with csvHeader; every
\* return runs the deferred close(i.data).
read_Header ==
    /\ impl = "csv"
    /\ pc = "header"
    /\ IF header = << >>
       THEN /\ pc' = SessionAfter("read", TRUE)
            /\ err' = "error reading csv header"
            /\ dataClosed' = TRUE
            /\ closes' = closes + 1
       ELSE IF ~HeaderValid(header)
       THEN /\ pc' = SessionAfter("read", TRUE)
            /\ err' = "invalid csv header"
            /\ dataClosed' = TRUE
            /\ closes' = closes + 1
       ELSE /\ pc' = "read"
            /\ err' = err
            /\ UNCHANGED << dataClosed, closes >>
    /\ UNCHANGED << inputs, published, pos, pending, totalRows, data, spc,
                    poolVars,
                    fileVars, signalVars, io, inserted, result >>

\* Variant of read_Record that returns the error of a record encoding/csv
\* refuses.
read_Record_StopOnError ==
    /\ impl = "csv"
    /\ pc = "read"
    /\ pending = 0
    /\ pos < Len(rows)
    /\ pos' = pos + 1
    /\ totalRows' = totalRows + 1
    /\ IF FieldCountError(rows[pos + 1])
       THEN /\ pending' = 0
            /\ pc' = SessionAfter("read", TRUE)
            /\ dataClosed' = TRUE
            /\ closes' = closes + 1
       ELSE /\ pending' = pos + 1
            /\ UNCHANGED << pc, dataClosed, closes >>
    /\ UNCHANGED << inputs, published, data, spc, poolVars, fileVars,
                    signalVars, io, inserted, result, err >>

\* csv.go:112-131: read one record and count it; a record encoding/csv
\* refuses is logged and skipped.
read_Record ==
    /\ impl = "csv"
    /\ pc = "read"
    /\ pending = 0
    /\ pos < Len(rows)
    /\ pos' = pos + 1
    /\ totalRows' = totalRows + 1
    /\ pending' = IF FieldCountError(rows[pos + 1]) THEN 0 ELSE pos + 1
    /\ UNCHANGED << inputs, published, pc, data, dataClosed, closes, spc,
                    poolVars,
                    fileVars, signalVars, io, inserted, result, err >>

\* Variant of read_Send that sends the record twice.
read_Send_Twice ==
    /\ impl = "csv"
    /\ pc = "read"
    /\ pending # 0
    /\ Len(data) < DataCap
    /\ data' = Append(data, pending)
    /\ published' = Append(Append(published, pending), pending)
    /\ pending' = 0
    /\ UNCHANGED << inputs, pc, pos, totalRows, dataClosed, closes, spc,
                    poolVars, fileVars, signalVars, io, inserted, result,
                    err >>

\* Variant of read_Send that does not block on a full channel.
read_Send_NoBlock ==
    /\ impl = "csv"
    /\ pc = "read"
    /\ pending # 0
    /\ data' = Append(data, pending)
    /\ published' = Append(published, pending)
    /\ pending' = 0
    /\ UNCHANGED << inputs, pc, pos, totalRows, dataClosed, closes, spc,
                    poolVars, fileVars, signalVars, io, inserted, result,
                    err >>

\* csv.go:133: i.data <- d, blocking while the channel is full.
read_Send ==
    /\ impl = "csv"
    /\ pc = "read"
    /\ pending # 0
    /\ Len(data) < DataCap
    /\ data' = Append(data, pending)
    /\ published' = Append(published, pending)
    /\ pending' = 0
    /\ UNCHANGED << inputs, pc, pos, totalRows, dataClosed, closes, spc,
                    poolVars, fileVars, signalVars, io, inserted, result,
                    err >>

\* csv.go:113-115, 136 and the deferred close of 86: io.EOF ends the loop.
read_Return ==
    /\ impl = "csv"
    /\ pc = "read"
    /\ pending = 0
    /\ pos = Len(rows)
    /\ dataClosed' = TRUE
    /\ closes' = closes + 1
    /\ pc' = SessionAfter("read", FALSE)
    /\ UNCHANGED << inputs, published, pos, pending, totalRows, data, spc,
                    poolVars,
                    fileVars, signalVars, io, inserted, result, err >>

\* Variant of signal_Send that closes the channel instead of sending.
signal_Send_Close ==
    /\ spc = "send"
    /\ sent' = sent
    /\ spc' = "flush"

\* csv.go:79: i.signal <- true, the last statement of the goroutine's body.
signal_Send ==
    /\ spc = "send"
    /\ sent' = sent + 1
    /\ spc' = "flush"

\* Variant of signal_Recv that goes on without receiving.
signal_Recv_Skip ==
    /\ pc = "recv"
    /\ received' = received
    /\ pc' = "exec"

\* csv.go:140: <-i.signal, the first statement of load.
signal_Recv ==
    /\ pc = "recv"
    /\ received' = received + 1
    /\ pc' = "exec"

\* csv.go:140 with csv.go:79: signal is unbuffered (newImporter), so the
\* send of the sanitizer goroutine and the receive of load are one step.
load_Signal ==
    /\ impl = "csv"
    /\ signal_Send
    /\ signal_Recv
    /\ UNCHANGED << inputs, readerVars, poolVars, fileVars, io, inserted,
                    result, err >>

\* csv.go:142-161: the bulk load, by driver.
load_Exec ==
    /\ impl = "csv"
    /\ pc = "exec"
    /\ pc' = SessionAfter("load", err' # "")
    /\ CASE driver = "mysql" ->
              /\ io' = io \cup {"exec"}
              /\ \E ok \in BOOLEAN, r \in RowsAffected :
                   IF ~ok
                   THEN /\ err' = "database error"
                        /\ inserted' = inserted
                   ELSE /\ err' = err
                        /\ inserted' = r
         [] driver = "postgres" ->
              /\ io' = io
              /\ err' = err
              /\ inserted' = 0
         [] OTHER ->
              /\ io' = io
              /\ err' = "invalid database driver"
              /\ inserted' = inserted
    /\ UNCHANGED << inputs, readerVars, spc, poolVars, fileVars, signalVars,
                    result >>

\* csv.go:164-169: os.Remove(i.sanitizedPath), whose error is only logged.
clean ==
    /\ impl = "csv"
    /\ pc = "clean"
    /\ io' = io \cup {"remove"}
    /\ \E ok \in BOOLEAN : exists' = (IF ok THEN FALSE ELSE exists)
    /\ pc' = SessionAfter("clean", FALSE)
    /\ UNCHANGED << inputs, readerVars, spc, poolVars, buf, file, fdOpen,
                    flushed, signalVars, inserted, result, err >>

\* The end of a session: load's error with no Result, or the Result built
\* from read's total and load's count.
session_Result ==
    /\ impl = "csv"
    /\ pc = "result"
    /\ pc' = SessionAfter("result", err # "")
    /\ result' = IF err = "" THEN NewResult(totalRows, inserted) ELSE result
    /\ UNCHANGED << inputs, readerVars, spc, poolVars, fileVars, signalVars,
                    io, inserted, err >>

-----------------------------------------------------------------------------
\* The goroutine setUpSanitizer starts (csv.go:49-80).

\* csv.go:52-56: csv.NewWriter(file), wg.Add(i.concurrency).
sanitizer_Start ==
    /\ spc = "start"
    /\ wg' = concurrency
    /\ spc' = IF concurrency = 0 THEN "wait" ELSE "spawn"
    /\ UNCHANGED << inputs, pc, readerVars, spawned, wpc, wrec, m, rejected,
                    writeErrs, fileVars, signalVars, io, inserted, result,
                    err >>

\* csv.go:59-76: one turn of the loop that starts the workers.
sanitizer_Spawn ==
    /\ spc = "spawn"
    /\ spawned < concurrency
    /\ spawned' = spawned + 1
    /\ wpc' = [wpc EXCEPT ![spawned + 1] = "recv"]
    /\ spc' = IF spawned + 1 = concurrency THEN "wait" ELSE "spawn"
    /\ UNCHANGED << inputs, pc, readerVars, wg, wrec, m, rejected, writeErrs,
                    fileVars, signalVars, io, inserted, result, err >>

\* Variant of sanitizer_Wait that does not wait for the workers.
sanitizer_Wait_NoWait ==
    /\ spc = "wait"
    /\ spc' = "send"
    /\ UNCHANGED << inputs, pc, readerVars, poolVars, fileVars, signalVars,
                    io, inserted, result, err >>

\* csv.go:78: wg.Wait().
sanitizer_Wait ==
    /\ spc = "wait"
    /\ wg = 0
    /\ spc' = "send"
    /\ UNCHANGED << inputs, pc, readerVars, poolVars, fileVars, signalVars,
                    io, inserted, result, err >>

\* csv.go:53: the deferred writer.Flush(), run when the goroutine's function
\* returns, that is after the send of line 79.
sanitizer_Flush ==
    /\ spc = "flush"
    /\ WriterFlush
    /\ spc' = "close"
    /\ UNCHANGED << inputs, pc, readerVars, poolVars, exists, fdOpen,
                    signalVars, io, inserted, result, err >>

\* csv.go:50: the deferred file.Close(), run last.
sanitizer_Close ==
    /\ spc = "close"
    /\ fdOpen' = FALSE
    /\ spc' = "done"
    /\ UNCHANGED << inputs, pc, readerVars, poolVars, buf, file, exists,
                    flushed, signalVars, io, inserted, result, err >>

-----------------------------------------------------------------------------
\* One worker (csv.go:60-75; the loop of geo.go:141-194 has the same shape).

\* for d := range i.data: take the next buffered record.
worker_Recv(w) ==
    /\ Alive
    /\ wpc[w] = "recv"
    /\ data # << >>
    /\ wrec' = [wrec EXCEPT ![w] = Head(data)]
    /\ data' = Tail(data)
    /\ wpc' = [wpc EXCEPT ![w] = "sanitize"]
    /\ UNCHANGED << inputs, published, pc, pos, pending, totalRows,
                    dataClosed, closes, spc, spawned, wg, m, rejected,
                    writeErrs, fileVars, signalVars, io, inserted, result,
                    err >>

\* Variant of worker_Exit that leaves the loop as soon as the channel is
\* empty.
worker_Exit_Early(w) ==
    /\ Alive
    /\ wpc[w] = "recv"
    /\ data = << >>
    /\ wpc' = [wpc EXCEPT ![w] = "done"]
    /\ wg' = wg - 1
    /\ UNCHANGED << inputs, pc, readerVars, spc, spawned, wrec, m, rejected,
                    writeErrs, fileVars, signalVars, io, inserted, result,
                    err >>

\* The range loop ends once the channel is closed and empty; defer wg.Done().
worker_Exit(w) ==
    /\ Alive
    /\ wpc[w] = "recv"
    /\ data = << >>
    /\ dataClosed
    /\ wpc' = [wpc EXCEPT ![w] = "done"]
    /\ wg' = wg - 1
    /\ UNCHANGED << inputs, pc, readerVars, spc, spawned, wrec, m, rejected,
                    writeErrs, fileVars, signalVars, io, inserted, result,
                    err >>

\* Variant of worker_Sanitize that keeps a rejected record and validates it
\* again.
worker_Sanitize_Retry(w) ==
    /\ Alive
    /\ wpc[w] = "sanitize"
    /\ IF sanitize(rows[wrec[w]])
       THEN /\ wpc' = [wpc EXCEPT ![w] = "lock"]
            /\ UNCHANGED << wrec, rejected >>
       ELSE /\ wpc' = [wpc EXCEPT ![w] = IF wrec[w] \in rejected
                                          THEN "recv" ELSE "sanitize"]
            /\ rejected' = rejected \cup {wrec[w]}
            /\ wrec' = [wrec EXCEPT ![w] = IF wrec[w] \in rejected
                                            THEN 0 ELSE wrec[w]]
    /\ UNCHANGED << inputs, pc, readerVars, spc, spawned, wg, m, writeErrs,
                    fileVars, signalVars, io, inserted, result, err >>

\* d.sanitize(): a rejected record is logged and dropped.
worker_Sanitize(w) ==
    /\ Alive
    /\ wpc[w] = "sanitize"
    /\ IF sanitize(rows[wrec[w]])
       THEN /\ wpc' = [wpc EXCEPT ![w] = "lock"]
            /\ UNCHANGED << wrec, rejected >>
       ELSE /\ wpc' = [wpc EXCEPT ![w] = "recv"]
            /\ rejected' = rejected \cup {wrec[w]}
            /\ wrec' = [wrec EXCEPT ![w] = 0]
    /\ UNCHANGED << inputs, pc, readerVars, spc, spawned, wg, m, writeErrs,
                    fileVars, signalVars, io, inserted, result, err >>

\* Variant of worker_Lock that goes on to the write without taking the
\* mutex.
worker_Lock_NoGuard(w) ==
    /\ Alive
    /\ wpc[w] = "lock"
    /\ m' = w
    /\ wpc' = [wpc EXCEPT ![w] = "write"]
    /\ UNCHANGED << inputs, pc, readerVars, spc, spawned, wg, wrec, rejected,
                    writeErrs, fileVars, signalVars, io, inserted, result,
                    err >>

\* m.Lock().
worker_Lock(w) ==
    /\ Alive
    /\ wpc[w] = "lock"
    /\ m = 0
    /\ m' = w
    /\ wpc' = [wpc EXCEPT ![w] = "write"]
    /\ UNCHANGED << inputs, pc, readerVars, spc, spawned, wg, wrec, rejected,
                    writeErrs, fileVars, signalVars, io, inserted, result,
                    err >>

\* Variant of worker_Write that hands the line to the writer twice.
worker_Write_Twice(w) ==
    /\ Alive
    /\ wpc[w] = "write"
    /\ \E ok \in BOOLEAN :
         IF ok
         THEN /\ file' = file \o buf
              /\ buf' = << wrec[w], wrec[w] >>
              /\ writeErrs' = writeErrs
         ELSE /\ UNCHANGED << buf, file >>
              /\ writeErrs' = writeErrs \cup {wrec[w]}
    /\ wrec' = [wrec EXCEPT ![w] = 0]
    /\ wpc' = [wpc EXCEPT ![w] = "unlock"]
    /\ UNCHANGED << inputs, pc, readerVars, spc, spawned, wg, m, rejected,
                    exists, fdOpen, flushed, signalVars, io, inserted, result,
                    err >>

\* Variant of worker_Write that leaves the loop turn on a write error
\* without reaching the unlock.
worker_Write_KeepOnError(w) ==
    /\ Alive
    /\ wpc[w] = "write"
    /\ \E ok \in BOOLEAN :
         IF ok
         THEN /\ WriterWrite(wrec[w])
              /\ writeErrs' = writeErrs
              /\ wpc' = [wpc EXCEPT ![w] = "unlock"]
         ELSE /\ UNCHANGED << buf, file >>
              /\ writeErrs' = writeErrs \cup {wrec[w]}
              /\ wpc' = [wpc EXCEPT ![w] = "recv"]
    /\ wrec' = [wrec EXCEPT ![w] = 0]
    /\ UNCHANGED << inputs, pc, readerVars, spc, spawned, wg, m, rejected,
                    exists, fdOpen, flushed, signalVars, io, inserted, result,
                    err >>

\* csv.go:70-73, geo.go:190-193: writer.Write(...), holding the mutex; an
\* error of the write is logged, the line is lost, the worker goes on to
\* the unlock either way.
worker_Write(w) ==
    /\ Alive
    /\ wpc[w] = "write"
    /\ \E ok \in BOOLEAN :
         IF ok
         THEN /\ WriterWrite(wrec[w])
              /\ writeErrs' = writeErrs
         ELSE /\ UNCHANGED << buf, file >>
              /\ writeErrs' = writeErrs \cup {wrec[w]}
    /\ wrec' = [wrec EXCEPT ![w] = 0]
    /\ wpc' = [wpc EXCEPT ![w] = "unlock"]
    /\ UNCHANGED << inputs, pc, readerVars, spc, spawned, wg, m, rejected,
                    exists, fdOpen, flushed, signalVars, io, inserted, result,
                    err >>

\* m.Unlock(), then the next turn of the range loop.
worker_Unlock(w) ==
    /\ Alive
    /\ wpc[w] = "unlock"
    /\ m' = 0
    /\ wpc' = [wpc EXCEPT ![w] = "recv"]
    /\ UNCHANGED << inputs, pc, readerVars, spc, spawned, wg, wrec, rejected,
                    writeErrs, fileVars, signalVars, io, inserted, result,
                    err >>

-----------------------------------------------------------------------------
Next ==
    \/ ImportCSV_Ext
    \/ sanitizeCSV_Open
    \/ sanitizeCSV_Header
    \/ sanitizeCSV_Create
    \/ sanitizeCSV_Spawn
    \/ sanitizeCSV_Read
    \/ sanitizeCSV_Send
    \/ sanitizeCSV_Close
    \/ sanitizeCSV_Return
    \/ loadData
    \/ ImportCSV_Remove
    \/ setUpSanitizer
    \/ read_Open
    \/ read_Header
    \/ read_Record
    \/ read_Send
    \/ read_Return
    \/ load_Signal
    \/ load_Exec
    \/ clean
    \/ session_Result
    \/ sanitizer_Start
    \/ sanitizer_Spawn
    \/ sanitizer_Wait
    \/ sanitizer_Flush
    \/ sanitizer_Close
    \/ \E w \in Workers :
         \/ worker_Recv(w)
         \/ worker_Exit(w)
         \/ worker_Sanitize(w)
         \/ worker_Lock(w)
         \/ worker_Write(w)
         \/ worker_Unlock(w)

Spec == Init /\ [][Next]_vars

-----------------------------------------------------------------------------
\* Scheduling.  Every goroutine that can take a step is eventually given
\* one: the calling thread, the goroutine setUpSanitizer starts (csv.go:49)
\* and each worker (csv.go:60, geo.go:141).

MainThread ==
    \/ ImportCSV_Ext
    \/ sanitizeCSV_Open
    \/ sanitizeCSV_Header
    \/ sanitizeCSV_Create
    \/ sanitizeCSV_Spawn
    \/ sanitizeCSV_Read
    \/ sanitizeCSV_Send
    \/ sanitizeCSV_Close
    \/ sanitizeCSV_Return
    \/ loadData
    \/ ImportCSV_Remove
    \/ setUpSanitizer
    \/ read_Open
    \/ read_Header
    \/ read_Record
    \/ read_Send
    \/ read_Return
    \/ load_Signal
    \/ load_Exec
    \/ clean
    \/ session_Result

SanitizerThread ==
    \/ sanitizer_Start
    \/ sanitizer_Spawn
    \/ sanitizer_Wait
    \/ load_Signal
    \/ sanitizer_Flush
    \/ sanitizer_Close

WorkerThread(w) ==
    \/ worker_Recv(w)
    \/ worker_Exit(w)
    \/ worker_Sanitize(w)
    \/ worker_Lock(w)
    \/ worker_Write(w)
    \/ worker_Unlock(w)

Fairness ==
    /\ WF_vars(MainThread)
    /\ WF_vars(SanitizerThread)
    /\ \A w \in Workers : WF_vars(WorkerThread(w))

FairSpec == Spec /\ Fairness

-----------------------------------------------------------------------------
\* Two sessions in one working directory.  Each session computes its staging
\* path from its source path, creates the file, writes its lines, loads the
\* file and removes it; the steps of the two sessions interleave.

\* filepath.Base: the last element of the path, here the file name.
Base(p) == SubSeq(p, Len(p) - 1, Len(p))

\* strings.TrimSuffix.
TrimSuffix(name, suffix) ==
    IF name # << >> /\ name[Len(name)] = suffix
    THEN SubSeq(name, 1, Len(name) - 1)
    ELSE name

\* csv.go:43, geo.go:76:
\* fmt.Sprintf("%s_sanitized.csv", strings.TrimSuffix(filepath.Base(path), ".csv"))
sanitizedPath(p) == TrimSuffix(Base(p), ".csv") \o << "_sanitized.csv" >>

\* os.File.Write at the handle's own offset o (in lines): the line lands at
\* position o + 1 of the file, after a hole if the file has been truncated.
WriteAt(f, o, s) ==
    [i \in 1..(IF Len(f) > o + 1 THEN Len(f) ELSE o + 1) |->
        IF i = o + 1 THEN s ELSE IF i <= Len(f) THEN f[i] ELSE 0]

SessionsInit ==
    /\ ImportInit
    /\ impl = "csv"
    /\ concurrency = 1
    /\ driver = "mysql"
    /\ header = csvHeader
    /\ rows = << >>
    /\ RecordIdle
    /\ srcPath \in [Sessions -> Paths]
    /\ phase = [s \in Sessions |-> "new"]
    /\ disk = [sp \in {} |-> << >>]
    /\ lines = [s \in Sessions |-> 0]
    /\ loaded = [s \in Sessions |-> << >>]

\* csv.go:43-47, geo.go:130: os.Create(sanitizedPath) creates the file or
\* truncates the one that is there.
session_Create(s) ==
    /\ phase[s] = "new"
    /\ disk' = [sp \in DOMAIN disk \cup {sanitizedPath(srcPath[s])} |->
                  IF sp = sanitizedPath(srcPath[s]) THEN << >> ELSE disk[sp]]
    /\ phase' = [phase EXCEPT ![s] = "staging"]
    /\ UNCHANGED << importVars, recordVars, srcPath, lines, loaded >>

\* csv.go:72, geo.go:191: one line written through the session's handle; the
\* handle outlives a removal of the path, the line is then lost with it.
session_Write(s) ==
    /\ phase[s] = "staging"
    /\ lines[s] < MaxLines
    /\ lines' = [lines EXCEPT ![s] = lines[s] + 1]
    /\ disk' = IF sanitizedPath(srcPath[s]) \in DOMAIN disk
               THEN [disk EXCEPT ![sanitizedPath(srcPath[s])] =
                        WriteAt(disk[sanitizedPath(srcPath[s])], lines[s], s)]
               ELSE disk
    /\ UNCHANGED << importVars, recordVars, srcPath, phase, loaded >>

\* csv.go:50-53, geo.go:134-137: the writer is flushed and the file closed.
session_Close(s) ==
    /\ phase[s] = "staging"
    /\ phase' = [phase EXCEPT ![s] = "closed"]
    /\ UNCHANGED << importVars, recordVars, srcPath, disk, lines, loaded >>

\* csv.go:144, geo.go:222: LOAD DATA INFILE sanitizedPath reads whatever
\* the path holds; a missing file is a store error.
session_Load(s) ==
    /\ phase[s] = "closed"
    /\ loaded' = [loaded EXCEPT ![s] =
                     IF sanitizedPath(srcPath[s]) \in DOMAIN disk
                     THEN disk[sanitizedPath(srcPath[s])]
                     ELSE << >>]
    /\ phase' = [phase EXCEPT ![s] = "loaded"]
    /\ UNCHANGED << importVars, recordVars, srcPath, disk, lines >>

\* csv.go:165, geo.go:87: os.Remove(sanitizedPath).
session_Remove(s) ==
    /\ phase[s] = "loaded"
    /\ disk' = [sp \in DOMAIN disk \ {sanitizedPath(srcPath[s])} |-> disk[sp]]
    /\ phase' = [phase EXCEPT ![s] = "done"]
    /\ UNCHANGED << importVars, recordVars, srcPath, lines, loaded >>

SessionsNext ==
    \E s \in Sessions :
        \/ session_Create(s)
        \/ session_Write(s)
        \/ session_Close(s)
        \/ session_Load(s)
        \/ session_Remove(s)

SpecSessions == SessionsInit /\ [][SessionsNext]_vars

-----------------------------------------------------------------------------
\* csvData.sanitize on one record (csv.go:181-229).

\* net.ParseIP for a dotted address: four decimal parts of one byte each.
ParseIP(a) ==
    /\ a.sep = "."
    /\ Len(a.parts) = 4
    /\ \A j \in 1..4 : a.parts[j] \in 0..255

UpperLetters ==
    {"A", "B", "C", "D", "E", "F", "G", "H", "I", "J", "K", "L", "M", "N",
     "O", "P", "Q", "R", "S", "T", "U", "V", "W", "X", "Y", "Z"}

\* Variant of countryCodeRegex that is anchored at both ends.
countryCodeRegex_Anchored(code) ==
    /\ Len(code) = 2
    /\ code[1] \in UpperLetters
    /\ code[2] \in UpperLetters

\* countryCodeRegex `[A-Z]{2}`, unanchored: two uppercase letters in a row.
countryCodeRegex(code) ==
    \E j \in 1..(Len(code) - 1) :
        code[j] \in UpperLetters /\ code[j + 1] \in UpperLetters

\* The keywords of sqlPatternRegex (csv.go:39).
sqlKeywords ==
    {"SELECT", "INSERT", "UPDATE", "DELETE", "UNION", "OR", "DROP", "EXEC",
     "EXECUTE", "ALTER", "CREATE", "TRUNCATE"}

\* A token of word characters (\w).
IsWord(tok) == tok \notin {"'", " "}

\* (?i): the token in upper case.
ToUpper(tok) ==
    CASE tok = "Or" -> "OR"
      [] tok = "test" -> "TEST"
      [] tok = "and" -> "AND"
      [] tok = "Select" -> "SELECT"
      [] tok = "exec" -> "EXEC"
      [] tok = "Execute" -> "EXECUTE"
      [] OTHER -> tok

\* sqlPatternRegex `(?i)\b(?:...)\b`: a keyword in any letter case with a
\* word boundary on either side.
sqlPatternRegex(text) ==
    \E j \in 1..Len(text) :
        /\ ToUpper(text[j]) \in sqlKeywords
        /\ j = 1 \/ ~IsWord(text[j - 1])
        /\ j = Len(text) \/ ~IsWord(text[j + 1])

\* strings.Contains(text, "'").
ContainsQuote(text) == \E j \in 1..Len(text) : text[j] = "'"

\* Variant of Quote that wraps the text in two pairs of quotes.
Quote_Twice(text) == << "'", "'" >> \o text \o << "'", "'" >>

\* fmt.Sprintf("'%s'", text).
Quote(text) == << "'" >> \o text \o << "'" >>

\* Variant of Normalize that leaves a text alone that is already wrapped.
Normalize_Once(text) ==
    IF ContainsQuote(text) /\ ~(text[1] = "'" /\ text[Len(text)] = "'")
    THEN Quote(text)
    ELSE text

\* csv.go:194-196, 202-204: a text with a single quote in it is wrapped.
Normalize(text) == IF ContainsQuote(text) THEN Quote(text) ELSE text

\* A float64 is NaN or a value, kept in units of 1/Scale.
Scale == 10000000

\* The float64 of an integer constant of the source.
Float(n) == [err |-> FALSE, nan |-> FALSE, f |-> n * Scale]

\* strconv.ParseFloat(text, 64): an error when anything follows the number;
\* NaN for the word; else the nearest float64, to which digits finer than a
\* float64 resolves add nothing.
ParseFloat(t) ==
    IF t.junk # ""
    THEN [err |-> TRUE, nan |-> FALSE, f |-> 0]
    ELSE IF t.special = "NaN"
    THEN [err |-> FALSE, nan |-> TRUE, f |-> 0]
    ELSE [err |-> FALSE, nan |-> FALSE,
          f |-> (IF t.sign = "-" THEN 0 - 1 ELSE 1)
                   * (t.whole * Scale + t.frac)]

\* Variant of FloatLE that is strict.
FloatLE_Strict(x, y) == ~x.nan /\ ~y.nan /\ x.f < y.f

\* x <= y on float64: false when either is NaN.
FloatLE(x, y) == ~x.nan /\ ~y.nan /\ x.f <= y.f

RECURSIVE StripZeros(_)
\* The digits without leading zeros.
StripZeros(ds) ==
    IF ds # << >> /\ ds[1] = 0 THEN StripZeros(Tail(ds)) ELSE ds

\* The number with digits a is greater than the number with digits b.
DigitsGreater(a, b) ==
    LET x == StripZeros(a)
        y == StripZeros(b)
    IN  \/ Len(x) > Len(y)
        \/ /\ Len(x) = Len(y)
           /\ \E j \in 1..Len(x) :
                 /\ x[j] > y[j]
                 /\ \A k \in 1..(j - 1) : x[k] = y[k]

\* Variant of ParseInt on integers of any size.
ParseInt_Big(t) ==
    IF t.junk # "" \/ t.digits = << >>
    THEN [err |-> TRUE, kind |-> "syntax"]
    ELSE [err |-> FALSE, kind |-> ""]

\* strconv.ParseInt(text, 10, 64): a syntax error when the text is not a
\* sign and digits, a range error when the value does not fit in an int64.
ParseInt(t) ==
    IF t.junk # "" \/ t.digits = << >>
    THEN [err |-> TRUE, kind |-> "syntax"]
    ELSE IF DigitsGreater(t.digits,
                          IF t.sign = "-" THEN MinInt64 ELSE MaxInt64)
    THEN [err |-> TRUE, kind |-> "range"]
    ELSE [err |-> FALSE, kind |-> ""]

\* Variant of csvData_sanitize that looks at the city before the country.
csvData_sanitize_CityFirst(rec) ==
    LET r1 == [rec EXCEPT !.city = Normalize(rec.city)]
        r2 == [r1 EXCEPT !.country = Normalize(rec.country)]
        fLat == ParseFloat(rec.latitude)
        fLng == ParseFloat(rec.longitude)
    IN  IF ~ParseIP(rec.ipAddress)
        THEN [d |-> rec, err |-> "invalid ip"]
        ELSE IF ~countryCodeRegex(rec.countryCode)
        THEN [d |-> rec, err |-> "invalid country code"]
        ELSE IF sqlPatternRegex(rec.city)
        THEN [d |-> rec, err |-> "invalid city"]
        ELSE IF sqlPatternRegex(r1.country)
        THEN [d |-> r1, err |-> "invalid country"]
        ELSE IF \/ fLat.err
                \/ ~(FloatLE(Float(0 - 90), fLat) /\ FloatLE(fLat, Float(90)))
        THEN [d |-> r2, err |-> "invalid latitude"]
        ELSE IF \/ fLng.err
                \/ ~(FloatLE(Float(0 - 180), fLng)
                       /\ FloatLE(fLng, Float(180)))
        THEN [d |-> r2, err |-> "invalid longitude"]
        ELSE IF ParseInt(rec.mysteryValue).err
        THEN [d |-> r2, err |-> "invalid mystery value"]
        ELSE [d |-> r2, err |-> ""]

\* csv.go:181-229: the record as the call leaves it, and the error returned
\* ("": nil).  The country is rewritten before the city is looked at, the
\* city before the latitude.
csvData_sanitize(rec) ==
    LET r1 == [rec EXCEPT !.country = Normalize(rec.country)]
        r2 == [r1 EXCEPT !.city = Normalize(rec.city)]
        fLat == ParseFloat(rec.latitude)
        fLng == ParseFloat(rec.longitude)
    IN  IF ~ParseIP(rec.ipAddress)
        THEN [d |-> rec, err |-> "invalid ip"]
        ELSE IF ~countryCodeRegex(rec.countryCode)
        THEN [d |-> rec, err |-> "invalid country code"]
        ELSE IF sqlPatternRegex(rec.country)
        THEN [d |-> rec, err |-> "invalid country"]
        ELSE IF sqlPatternRegex(r1.city)
        THEN [d |-> r1, err |-> "invalid city"]
        ELSE IF \/ fLat.err
                \/ ~(FloatLE(Float(0 - 90), fLat) /\ FloatLE(fLat, Float(90)))
        THEN [d |-> r2, err |-> "invalid latitude"]
        ELSE IF \/ fLng.err
                \/ ~(FloatLE(Float(0 - 180), fLng)
                       /\ FloatLE(fLng, Float(180)))
        THEN [d |-> r2, err |-> "invalid longitude"]
        ELSE IF ParseInt(rec.mysteryValue).err
        THEN [d |-> r2, err |-> "invalid mystery value"]
        ELSE [d |-> r2, err |-> ""]

RecordInit ==
    /\ ImportInit
    /\ impl = "csv"
    /\ concurrency = 1
    /\ driver = "mysql"
    /\ header = csvHeader
    /\ rows = << >>
    /\ SessionsIdle
    /\ d0 \in Records
    /\ before = d0
    /\ d = d0
    /\ sErr = ""
    /\ calls = 0

\* csv.go:62: err := d.sanitize(), on the record through its pointer.
sanitize_Call ==
    /\ calls < MaxCalls
    /\ before' = d
    /\ d' = csvData_sanitize(d).d
    /\ sErr' = csvData_sanitize(d).err
    /\ calls' = calls + 1
    /\ UNCHANGED << importVars, sessionVars, d0 >>

RecordNext == sanitize_Call

SpecSanitize == RecordInit /\ [][RecordNext]_vars

\* The same call on the records of RecordsWide.
ChecksInit ==
    /\ ImportInit
    /\ impl = "csv"
    /\ concurrency = 1
    /\ driver = "mysql"
    /\ header = csvHeader
    /\ rows = << >>
    /\ SessionsIdle
    /\ d0 \in RecordsWide
    /\ before = d0
    /\ d = d0
    /\ sErr = ""
    /\ calls = 0

SpecChecks == ChecksInit /\ [][RecordNext]_vars

-----------------------------------------------------------------------------
\* Properties.

\* The calling thread has returned from the import.
Returned == pc \in {"done", "failed"}

\* load has been entered (csvImporter).
LoadEntered ==
    /\ impl = "csv"
    /\ \/ pc \in {"exec", "clean", "result", "done"}
       \/ pc = "failed" /\ "remove" \in io

LoadErrors == {"database error", "invalid database driver"}

\* The data rows that are published and that sanitize accepts.
AcceptedRows ==
    { i \in 1..Len(rows) : ~FieldCountError(rows[i]) /\ sanitize(rows[i]) }

Range(q) == { q[i] : i \in 1..Len(q) }

\* C1: once a value has been placed on the signal channel, the staging
\* writer has been flushed and the staging file closed, so every accepted
\* record is in the file (stated for sessions with at least one worker and
\* at least one accepted record, in which no write failed).
C1_FlushedAndClosedBeforeSignal ==
    (/\ impl = "csv"
     /\ concurrency >= 1
     /\ AcceptedRows # {}
     /\ writeErrs = {}
     /\ sent >= 1) =>
        /\ flushed
        /\ ~fdOpen
        /\ AcceptedRows \subseteq Range(file)

\* C2: an import that completes returns a Result whose acceptedRows is the
\* store's rows-affected value and whose acceptedRows + discardedRows is the
\* number of data rows of the input.
C2_AcceptedPlusDiscarded ==
    pc = "done" =>
        /\ result # Nil
        /\ err = ""
        /\ result.acceptedRows = inserted
        /\ result.acceptedRows + result.discardedRows = Len(rows)

C2_Witness ==
    /\ pc = "done"
    /\ impl = "geo"
    /\ concurrency = MaxConcurrency
    /\ Len(rows) = MaxRows
    /\ result # Nil
    /\ result.acceptedRows = 1
    /\ result.discardedRows = MaxRows - 1

\* C3: at most one value is ever sent on the signal channel and at most one
\* received, never more received than sent; once load has been entered and
\* has passed its receive, exactly one value has been sent and received.
C3_SignalOnce ==
    /\ sent <= 1
    /\ received <= 1
    /\ received <= sent
    /\ LoadEntered => (sent = 1 /\ received = 1)
    /\ (spc \in {"flush", "close", "done"}) => (sent = 1 /\ received = 1)

C3_Witness ==
    /\ impl = "csv"
    /\ pc = "done"
    /\ spc = "done"
    /\ sent = 1
    /\ received = 1
    /\ concurrency = MaxConcurrency
    /\ Len(rows) = MaxRows

\* C4: load runs the bulk-load statement only after it has received the
\* value from the signal channel, and while no sender is ready load cannot
\* leave its receive.
C4_LoadAfterSignal ==
    impl = "csv" =>
        /\ pc = "exec" => received = 1
        /\ "exec" \in io => received = 1
        /\ (pc = "recv" /\ spc # "send") => ~ENABLED load_Signal

C4_Witness ==
    /\ impl = "csv"
    /\ concurrency >= 1
    /\ driver = "mysql"
    /\ "exec" \in io
    /\ received = 1
    /\ Len(rows) = MaxRows

\* C5: with a header that is absent, of another length or different in a
\* field, read ends in a fatal error and no data row is counted, published
\* on the data channel or handed to a worker.
C5_HeaderMismatchFatal ==
    (impl = "csv" /\ ~HeaderValid(header)) =>
        /\ totalRows = 0
        /\ pos = 0
        /\ pending = 0
        /\ data = << >>
        /\ \A w \in Workers : wrec[w] = 0 /\ wpc[w] \in {"none", "recv", "done"}
        /\ rejected = {}
        /\ buf = << >>
        /\ file = << >>
        /\ pc \in {"setUp", "open", "header", "failed"}
        /\ pc = "failed" =>
             err \in {"create error", "open error", "error reading csv header",
                      "invalid csv header"}

C5_Witness ==
    /\ impl = "csv"
    /\ Len(header) = Len(csvHeader)
    /\ ~HeaderValid(header)
    /\ Len(rows) = MaxRows
    /\ pc = "failed"
    /\ err = "invalid csv header"
    /\ concurrency > 0
    /\ spawned = concurrency
    /\ dataClosed

C8_CleanupFailureNotSurfaced ==
    (/\ Returned
     /\ concurrency >= 1
     /\ "exec" \in io
     /\ err \notin LoadErrors
     /\ "remove" \in io
     /\ exists) =>
        (result # Nil /\ err = "")

\* C9: Geo.ImportCSV never returns an error together with a Result: every
\* error ends the call with a nil Result, and a Result comes with no error.
C9_ErrorXorResult ==
    /\ result # Nil => (err = "" /\ pc = "done")
    /\ pc = "failed" => (result = Nil /\ err # "")
    /\ impl = "geo" =>
         /\ err # "" => pc = "failed"
         /\ (ext # ".csv" /\ pc # "ext") => pc = "failed"
         /\ (~HeaderValid(header) /\ pc \notin {"ext", "open", "header"}) =>
              pc = "failed"

C9_Witness ==
    /\ impl = "geo"
    /\ concurrency >= 1
    /\ pc = "failed"
    /\ err = "database error"
    /\ result = Nil
    /\ Len(rows) = MaxRows
    /\ totalRows = MaxRows

\* C10: with an extension other than .csv, Geo.ImportCSV returns its error
\* with no file opened or created, no worker started and nothing sent on or
\* done to any channel.
C10_BadExtensionNoIO ==
    (impl = "geo" /\ ext # ".csv") =>
        /\ io = {}
        /\ ~exists
        /\ ~fdOpen
        /\ spawned = 0
        /\ \A w \in Workers : wpc[w] = "none"
        /\ spc = "none"
        /\ pos = 0
        /\ data = << >>
        /\ ~dataClosed
        /\ sent = 0
        /\ pc \in {"ext", "failed"}
        /\ pc = "failed" => (err = "invalid file extension" /\ result = Nil)

C10_Witness ==
    /\ impl = "geo"
    /\ concurrency >= 1
    /\ ext = ".txt"
    /\ pc = "failed"
    /\ err = "invalid file extension"
    /\ HeaderValid(header)
    /\ Len(rows) = MaxRows

\* The reader holds a record it can never publish: the channel is full and
\* the pool has no worker and will get none.
ReaderStuck ==
    /\ Alive
    /\ pending # 0
    /\ Len(data) >= DataCap
    /\ spawned = concurrency
    /\ \A w \in Workers : wpc[w] = "none"

\* The pool has drained: the signal was sent (csvImporter), sanitizeCSV has
\* returned (Geo.ImportCSV).
Drained ==
    \/ impl = "csv" /\ sent >= 1
    \/ impl = "geo" /\ pc \in {"load", "remove", "done"}

\* The records handed to the staging writer so far.
Written == Range(file) \cup Range(buf)

\* C11: a concurrency hint of 0 behaves as a hint of 1: the reader is never
\* left with a record no worker will take, and once the pool has drained
\* every accepted record has been written, so the counts are those of hint 1.
C11_ZeroHintActsAsOne ==
    concurrency = 0 =>
        /\ ~ReaderStuck
        /\ Drained => AcceptedRows \subseteq Written

\* encoding/csv refuses data row i (wrong field count).
Malformed(i) == FieldCountError(rows[i])

\* The data rows among the first n that encoding/csv returns as records, in
\* input order.
WellFormedUpTo(n) ==
    SelectSeq([i \in 1..n |-> i], LAMBDA i : ~Malformed(i))

MalformedUpTo(n) == { i \in 1..n : Malformed(i) }

\* read has left its row loop.
ReadLoopLeft == impl = "csv" /\ pos >= 1 /\ pc # "read"

C13_WellFormedPublishedOnceInOrder ==
    impl = "csv" =>
        /\ published \o (IF pending = 0 THEN << >> ELSE << pending >>)
             = WellFormedUpTo(pos)
        /\ totalRows = Len(WellFormedUpTo(pos))
                         + Cardinality(MalformedUpTo(pos))
        /\ ReadLoopLeft =>
             totalRows = Len(published)
                           + Cardinality(MalformedUpTo(Len(rows)))

C13_Witness ==
    /\ impl = "csv"
    /\ concurrency >= 1
    /\ rows = << "invalid", "valid" >>
    /\ pc = "recv"
    /\ totalRows = 2
    /\ published = << 1, 2 >>

\* The published records that sanitize accepts.
PublishedAccepted == { i \in Range(published) : sanitize(rows[i]) }

\* wg.Wait() of the sanitizer goroutine has returned.
PoolDrained == impl = "csv" /\ spc \in {"send", "flush", "close", "done"}

\* C14: once the pool has drained, the staging file holds exactly one line
\* for each published record sanitize accepted and none for a rejected one
\* (stated for sessions with at least one worker in which no write failed).
C14_StagedEqualsAccepted ==
    (PoolDrained /\ concurrency >= 1 /\ writeErrs = {}) =>
        /\ Range(file) = PublishedAccepted
        /\ Len(file) = Cardinality(PublishedAccepted)

\* The import has ended Completed or Failed and no goroutine it started is
\* left running or blocked.
ImportEnded ==
    /\ Returned
    /\ spc \in {"none", "done"}
    /\ \A w \in Workers : wpc[w] \in {"none", "done"}

\* C15: with a concurrency factor of at least 1, every import ends Completed
\* or Failed, and the reader, every worker, the sanitizer goroutine and the
\* loader all come to their end.
C15_ImportEnds == (concurrency >= 1) ~> ImportEnded

\* Session s has created its staging file and not yet removed it.
Owns(s) == phase[s] \in {"staging", "closed", "loaded"}

\* C16: two sessions that run at the same time on different source paths
\* never have the same staging file, and the bulk load of a session reads
\* only lines that session wrote.
C16_StagingNotShared ==
    srcPath[1] # srcPath[2] =>
        /\ (Owns(1) /\ Owns(2)) =>
              sanitizedPath(srcPath[1]) # sanitizedPath(srcPath[2])
        /\ \A s \in Sessions : \A i \in 1..Len(loaded[s]) : loaded[s][i] = s

\* The reasons sanitize reports, in the order of its checks.
Reasons ==
    << "invalid ip", "invalid country code", "invalid country",
       "invalid city", "invalid latitude", "invalid longitude",
       "invalid mystery value" >>

\* Check k, taken alone, fails on the record.
FieldFails(rec, k) ==
    CASE k = 1 -> ~ParseIP(rec.ipAddress)
      [] k = 2 -> ~countryCodeRegex(rec.countryCode)
      [] k = 3 -> sqlPatternRegex(rec.country)
      [] k = 4 -> sqlPatternRegex(rec.city)
      [] k = 5 -> \/ ParseFloat(rec.latitude).err
                  \/ ParseFloat(rec.latitude).nan
                  \/ ParseFloat(rec.latitude).f < (0 - 90) * Scale
                  \/ ParseFloat(rec.latitude).f > 90 * Scale
      [] k = 6 -> \/ ParseFloat(rec.longitude).err
                  \/ ParseFloat(rec.longitude).nan
                  \/ ParseFloat(rec.longitude).f < (0 - 180) * Scale
                  \/ ParseFloat(rec.longitude).f > 180 * Scale
      [] k = 7 -> ParseInt(rec.mysteryValue).err

FailingChecks(rec) == { k \in 1..Len(Reasons) : FieldFails(rec, k) }

\* The reason of the earliest failing check; "" when every check passes.
EarliestReason(rec) ==
    IF FailingChecks(rec) = {}
    THEN ""
    ELSE Reasons[CHOOSE k \in FailingChecks(rec) :
                    \A other \in FailingChecks(rec) : k <= other]

\* C17: sanitize checks address, country code, country, city, latitude,
\* longitude, auxiliary value in this order and stops at the first check
\* that fails: the error it returns is the reason of the earliest failing
\* field, and nil when no field fails.
C17_EarliestFailureReported ==
    calls >= 1 => sErr = EarliestReason(before)

C17_Witness ==
    /\ calls = 1
    /\ FailingChecks(before) = {3, 4, 6}
    /\ sErr = "invalid country"

\* C18: a call of sanitize that returns an error leaves every field of the
\* record as it was before the call.
C18_RejectLeavesRecord ==
    (calls >= 1 /\ sErr # "") => d = before

\* new is old inside n pairs of single quotes.
WrappedTimes(new, old, n) ==
    /\ Len(new) = Len(old) + 2 * n
    /\ \A j \in 1..n : new[j] = "'" /\ new[Len(new) + 1 - j] = "'"
    /\ SubSeq(new, n + 1, Len(new) - n) = old

HasQuote(text) == "'" \in Range(text)

\* C19: a call of sanitize that returns nil leaves address, country code,
\* latitude, longitude and auxiliary value as they were, and leaves each of
\* country and city inside one new pair of single quotes when it held a
\* single quote and as it was otherwise.
C19_AcceptFrame ==
    (calls >= 1 /\ sErr = "") =>
        /\ d.ipAddress = before.ipAddress
        /\ d.countryCode = before.countryCode
        /\ d.latitude = before.latitude
        /\ d.longitude = before.longitude
        /\ d.mysteryValue = before.mysteryValue
        /\ WrappedTimes(d.country, before.country,
                        IF HasQuote(before.country) THEN 1 ELSE 0)
        /\ WrappedTimes(d.city, before.city,
                        IF HasQuote(before.city) THEN 1 ELSE 0)

C19_Witness ==
    /\ calls = 1
    /\ sErr = ""
    /\ before.country = << "test", "'" >>
    /\ d.country = << "'", "test", "'", "'" >>
    /\ before.city = << "test" >>
    /\ d.city = << "test" >>

\* C20: on a record sanitize accepts, every further call of sanitize on
\* the result returns nil again; after n calls a country or city with no
\* single quote is as it was read, and one with a single quote is inside n
\* pairs of quotes; the other fields are as they were read.
C20_RepeatedSanitize ==
    (calls >= 1 /\ FailingChecks(d0) = {}) =>
        /\ sErr = ""
        /\ WrappedTimes(d.country, d0.country,
                        IF HasQuote(d0.country) THEN calls ELSE 0)
        /\ WrappedTimes(d.city, d0.city,
                        IF HasQuote(d0.city) THEN calls ELSE 0)
        /\ [d EXCEPT !.country = d0.country, !.city = d0.city] = d0

C20_Witness ==
    /\ calls = MaxCalls
    /\ sErr = ""
    /\ d0.country = << "test" >>
    /\ d.country = d0.country
    /\ HasQuote(d0.city)
    /\ Len(d.city) = Len(d0.city) + 2 * MaxCalls

\* The denylist as the specification gives it.
DenyList ==
    {"SELECT", "INSERT", "UPDATE", "DELETE", "UNION", "AND", "OR", "DROP",
     "EXEC", "EXECUTE", "ALTER", "CREATE", "TRUNCATE"}

\* The text holds a word of the denylist, in any letter case, as a whole
\* word.
HasDeniedWord(text) ==
    \E j \in 1..Len(text) :
        /\ ToUpper(text[j]) \in DenyList
        /\ j = 1 \/ text[j - 1] \in {"'", " "}
        /\ j = Len(text) \/ text[j + 1] \in {"'", " "}

\* C21: a country or city text is rejected if and only if it holds, as a
\* whole word in any letter case, one of SELECT, INSERT, UPDATE, DELETE,
\* UNION, AND, OR, DROP, EXEC, EXECUTE, ALTER, CREATE, TRUNCATE.
C21_DenylistRejects ==
    calls = 1 =>
        /\ sErr = "invalid country" <=> HasDeniedWord(d0.country)
        /\ sErr = "invalid city" <=>
              (~HasDeniedWord(d0.country) /\ HasDeniedWord(d0.city))

\* Two uppercase ASCII letters in a row, anywhere in the code.
HasUpperPair(code) ==
    \E j \in 1..Len(code) :
        /\ j < Len(code)
        /\ code[j] \in UpperLetters
        /\ code[j + 1] \in UpperLetters

\* C22: a country code is accepted if and only if it holds two uppercase
\* ASCII letters in a row anywhere: AB and a longer code with such a pair
\* in it are accepted, B and ab are rejected.
C22_CountryCodePair ==
    calls = 1 =>
        (sErr = "invalid country code" <=> ~HasUpperPair(d0.countryCode))

C22_Witness ==
    /\ calls = 1
    /\ d0.countryCode = << "a", "A", "B" >>
    /\ sErr = ""

\* The text is a base-10 integer literal: an optional sign and digits.
IsIntegerLiteral(t) == t.junk = "" /\ t.digits # << >>

\* C23: the auxiliary value is accepted if and only if it is a base-10
\* integer literal with an optional sign, whatever its magnitude.
C23_AnyIntegerLiteral ==
    calls = 1 =>
        (sErr = "invalid mystery value" <=> ~IsIntegerLiteral(d0.mysteryValue))

\* The text parses as a number whose float64 lies in [-bound, bound].
CoordinateWithin(t, bound) ==
    /\ t.junk = ""
    /\ t.special = ""
    /\ t.whole < bound \/ (t.whole = bound /\ t.frac = 0)

\* C24: a latitude is accepted exactly when it parses as a number in
\* [-90, 90] and a longitude exactly when it parses as a number in
\* [-180, 180]; the bounds themselves are accepted and every float64
\* beyond one is rejected.
C24_InclusiveBounds ==
    calls = 1 =>
        /\ sErr = "invalid latitude" <=> ~CoordinateWithin(d0.latitude, 90)
        /\ sErr = "invalid longitude" <=>
              /\ CoordinateWithin(d0.latitude, 90)
              /\ ~CoordinateWithin(d0.longitude, 180)

C24_Witness ==
    /\ calls = 1
    /\ d0.latitude = Coordinate("-", 90, 0, FALSE, "", "")
    /\ d0.longitude = BaseRecord.longitude
    /\ sErr = ""

\* read has been called and has returned.
ReadReturned ==
    /\ impl = "csv"
    /\ "open" \in io
    /\ pc \notin {"open", "header", "read"}

\* C25: read closes the data channel exactly once on every exit path (input
\* exhausted, source open error, header read error, header mismatch): the
\* channel is open and never closed while read has not returned, closed and
\* closed once from the moment it returns; and no record is published on a
\* closed channel.
C25_ClosedOnceOnEveryExit ==
    /\ [](impl = "csv" =>
            /\ dataClosed = ReadReturned
            /\ closes = (IF ReadReturned THEN 1 ELSE 0))
    /\ [][(impl = "csv" /\ dataClosed) => published' = published]_vars

\* read has returned the open error and the channel is closed.
C25_Witness ==
    /\ impl = "csv"
    /\ pc = "failed"
    /\ err = "open error"
    /\ dataClosed
    /\ closes = 1

\* Every worker of the pool has been started and has left its loop, and the
\* channel holds no record.
WorkersDone ==
    /\ data = << >>
    /\ \A w \in Workers : w <= concurrency => wpc[w] = "done"

\* C26: once read has closed the data channel, every worker takes the
\* records still buffered in it and terminates, and the signal is then sent
\* (csvImporter, at least one worker, fair scheduling).
C26_DrainThenSignal ==
    (impl = "csv" /\ concurrency >= 1 /\ dataClosed) ~>
        (WorkersDone /\ sent >= 1)

\* C27: no worker terminates while the data channel is open or holds a
\* record: a worker leaves its loop only from a closed and empty channel, and
\* a worker at the receive of an open and empty channel stays there.
C27_NoEarlyExit ==
    [][\A w \in Workers :
         /\ (wpc[w] # "done" /\ wpc'[w] = "done") =>
               (dataClosed /\ data = << >>)
         /\ (wpc[w] = "recv" /\ data = << >> /\ ~dataClosed) =>
               wpc'[w] = "recv"]_vars

\* One worker has left its loop while the other still works on a record the
\* reader published.
C27_Witness ==
    /\ concurrency = 2
    /\ wpc[1] = "done"
    /\ wpc[2] \in {"sanitize", "lock", "write", "unlock"}
    /\ dataClosed
    /\ data = << >>

\* All N workers have been started and every one of them has exited.
AllWorkersExited ==
    /\ spawned = concurrency
    /\ \A w \in Workers : w <= concurrency => wpc[w] = "done"

\* C28: the flush of the staging writer, the close of the staging file and
\* the send on the signal channel happen only after all N workers have
\* exited: no worker is running when the goroutine is at or past the send,
\* when the writer has been flushed or when the signal has been sent.
C28_AfterAllWorkers ==
    (\/ spc \in {"send", "flush", "close", "done"}
     \/ flushed
     \/ sent >= 1) => AllWorkersExited

\* A session with two workers has sent the signal, flushed the writer and
\* closed the file.
C28_Witness ==
    /\ impl = "csv"
    /\ concurrency = 2
    /\ published # << >>
    /\ sent = 1
    /\ flushed
    /\ ~fdOpen
    /\ spc = "done"

\* The workers that are inside the write to the staging writer.
Writing == { w \in Workers : wpc[w] = "write" }

\* C29: at most one worker at a time is inside the write to the staging
\* writer, whatever the number of workers and the interleaving.
C29_OneWriterAtATime == Cardinality(Writing) <= 1

\* One worker is inside the write while the other has an accepted record and
\* waits for the mutex.
C29_Witness ==
    /\ concurrency = 2
    /\ \E w, v \in Workers : wpc[w] = "write" /\ wpc[v] = "lock"

\* C30: a worker holds the write gate only for one write: the mutex is held
\* by worker w exactly while w is at the write or at the unlock that follows
\* it, never while w receives from the channel, runs sanitize, waits for the
\* mutex or has ended; a failed write is followed by the unlock like a
\* successful one.
C30_GateHeldForWriteOnly ==
    /\ m \in Workers \cup {0}
    /\ \A w \in Workers : (m = w) <=> (wpc[w] \in {"write", "unlock"})

\* A write has failed, the mutex is free again and the worker is back at the
\* receive.
C30_Witness ==
    /\ writeErrs # {}
    /\ m = 0
    /\ \E w \in Workers : wpc[w] = "recv"

\* The records the reader has read that have been neither handed to the
\* staging writer (with or without success) nor rejected.
InFlight ==
    { i \in 1..pos : ~Malformed(i) } \ (Written \cup writeErrs \cup rejected)

Started == { w \in Workers : wpc[w] # "none" }

\* C32: exactly N workers are started in a session, N being the concurrency
\* factor: never more than N, and all N of them before the reader publishes
\* its first record.
C32_PoolStartedBeforePublish ==
    /\ Cardinality(Started) = spawned
    /\ spawned <= concurrency
    /\ published # << >> => spawned = concurrency

\* The errors of a header that does not match.
HeaderMismatch == {"invalid csv header", "invalid headers in csv file"}

\* C33: when the header mismatches, no worker has been started at the moment
\* the import fails with the header error.
C33_HeaderErrorBeforeWorkers ==
    [][(pc # "failed" /\ pc' = "failed" /\ err' \in HeaderMismatch) =>
         (spawned = 0 /\ Started = {})]_vars

\* How many times i occurs in the sequence q.
Occurrences(q, i) == Cardinality({ k \in 1..Len(q) : q[k] = i })

\* The workers that hold record i.
Holders(i) == { w \in Workers : wrec[w] = i }

\* The number of places record i is in: the channel, a worker, the staging
\* writer (its buffer or the file), the rejected records, the records whose
\* write failed.
Places(i) ==
    Occurrences(data, i) + Cardinality(Holders(i))
        + Occurrences(file, i) + Occurrences(buf, i)
        + (IF i \in rejected THEN 1 ELSE 0)
        + (IF i \in writeErrs THEN 1 ELSE 0)

FatalErrors ==
    {"invalid file extension", "create error", "open error", "EOF",
     "error reading csv header", "database error", "invalid database driver"}
        \cup HeaderMismatch

\* C35: an import fails only because the staging file cannot be created (or
\* the source opened), because of a header error or because of a store
\* error; a malformed row or a row sanitize rejects never ends the import and
\* never keeps the following rows from being read: the reader stops before
\* the last row only when it has read no row at all (stated for sessions
\* with at least one worker).
C35_OnlyFatalErrorsFail ==
    concurrency >= 1 =>
        /\ pc = "failed" => err \in FatalErrors
        /\ pc # "exited"
        /\ (dataClosed /\ pos < Len(rows)) => pos = 0

\* C36: if the staging file cannot be created, the error is returned, no
\* sanitizer goroutine and no worker is started, nothing is ever sent on the
\* signal channel, and the import returns the error with no Result and
\* without having read a row of the source; after a failed setUpSanitizer
\* the source has not even been opened.
C36_CreateFailureStartsNothing ==
    err = "create error" =>
        /\ pc = "failed"
        /\ result = Nil
        /\ spc = "none"
        /\ spawned = 0
        /\ Started = {}
        /\ sent = 0
        /\ pos = 0
        /\ totalRows = 0
        /\ published = << >>
        /\ ~exists
        /\ impl = "csv" => "open" \notin io

\* setUpSanitizer has failed on os.Create in a session that asked for
\* workers.
C36_Witness ==
    /\ impl = "csv"
    /\ concurrency >= 1
    /\ "create" \in io
    /\ pc = "failed"
    /\ err = "create error"

\* read has returned a fatal error: the session has failed and load is not
\* called.
ReadFailed ==
    /\ impl = "csv"
    /\ pc = "failed"
    /\ err \in {"open error", "error reading csv header"} \cup HeaderMismatch

\* C37: when read ends with a fatal error, the sanitizer goroutine still
\* runs to its end: it gets past its send on the signal channel, flushes the
\* staging writer and closes the staging file (fair scheduling, at least
\* one worker).
C37_GoroutineEndsAfterReadFailure ==
    (ReadFailed /\ concurrency >= 1) ~> (spc = "done" /\ flushed /\ ~fdOpen)

\* The number of lines handed to the staging writer and taken by it.
StagedLines == Len(file) + Len(buf)

Staged == file \o buf

\* The sequence of row numbers q follows the order of the input.
InInputOrder(q) == \A j, k \in 1..Len(q) : j < k => q[j] < q[k]

\* C39: with concurrency factor 1 the staged lines are in the relative order
\* the accepted records have in the input; with two workers there is an
\* execution whose staged order differs from the input order.
C39_OrderKeptWithOneWorker == concurrency = 1 => InInputOrder(Staged)

\* Two workers have staged the second record of the input before the first.
C39_Witness ==
    /\ concurrency = 2
    /\ Staged = << 2, 1 >>

=============================================================================
